---------------------------- MODULE Spec2Model ----------------------------
(***************************************************************************)
(* A model of the BMP280 driver: the TP32DataQueue sample window           *)
(* (bmp280_data.cpp), the configuration sequence of the device controller  *)
(* (bmp280.cpp) and the 32-bit fixed-point compensation (bmp280_comp.cpp). *)
(*                                                                         *)
(* TLC's integers are 32-bit, which is exactly the range of int32_t.       *)
(* uint32_t values and exact sums are kept as "wide" integers: a record    *)
(* [hi, lo] standing for hi * 2^16 + lo with 0 <= lo < 2^16.               *)
(***************************************************************************)
EXTENDS Integers, Sequences, FiniteSets, TLC

\* ------------------------------------------------------------------------
\* Bounds of the model
\* ------------------------------------------------------------------------

\* Largest capacity a queue is constructed with.
MaxCap == 2

\* ------------------------------------------------------------------------
\* Fixed-width arithmetic
\* ------------------------------------------------------------------------

INT32_MAX == 2147483647

INT32_MIN == -2147483647 - 1

\* 2^16: the base of the two limbs of a wide integer.
B16 == 65536

\* The wide integer h * 2^16 + l, its low limb brought into 0 .. 2^16-1.
WNorm(h, l) == [hi |-> h + (l \div B16), lo |-> l % B16]

\* A native integer as a wide integer.
FromInt(x) == [hi |-> x \div B16, lo |-> x % B16]

W0 == FromInt(0)

WAdd(a, b) == WNorm(a.hi + b.hi, a.lo + b.lo)

WLt(a, b) == a.hi < b.hi \/ (a.hi = b.hi /\ a.lo < b.lo)

\* Whether a wide integer is a value of int32_t / of uint32_t.
FitsS32(a) == a.hi >= -32768 /\ a.hi <= 32767

FitsU32(a) == a.hi >= 0 /\ a.hi <= 65535

\* Reduction modulo 2^32 to the unsigned and to the two's complement range.
WrapU32(a) == [hi |-> a.hi % B16, lo |-> a.lo]

WrapS32(a) == [hi |-> ((a.hi + 32768) % B16) - 32768, lo |-> a.lo]

\* The native integer of a wide integer that fits int32_t.
ToInt(a) == a.hi * B16 + a.lo

UINT32_MAX == [hi |-> 65535, lo |-> 65535]

\* a mod n and the exact quotient a / g (g divides a), for small n, g > 0.
WMod(a, n) == (((a.hi % n) * (B16 % n)) + a.lo) % n

WDivExact(a, g) ==
    [hi |-> a.hi \div g, lo |-> (((a.hi % g) * B16) + a.lo) \div g]

RECURSIVE GCD(_, _)
GCD(a, b) == IF b = 0 THEN a ELSE GCD(b, a % b)

\* The double (double)sum / n.  A sum of 32 bits is exact in a double and
\* the quotients of sums by the small counts of the model are distinct
\* doubles exactly when they are distinct rationals, so the double is
\* kept as the fraction sum / n in lowest terms.
DoubleDiv(sum, n) ==
    LET g == GCD(n, WMod(sum, n))
    IN  [num |-> WDivExact(sum, g), den |-> n \div g]

\* The double 0.0.
DoubleZero == [num |-> W0, den |-> 1]

\* ------------------------------------------------------------------------
\* TP32DataQueue: state
\* ------------------------------------------------------------------------

VARIABLES
    dq,        \* std::deque<TP32Data>: the samples held, front first
    qcap,      \* unsigned int: the configured capacity
    t_high,    \* int32_t cache
    t_low,     \* int32_t cache
    t_avg,     \* double cache
    p_high,    \* uint32_t cache (wide)
    p_low,     \* uint32_t cache (wide)
    p_avg,     \* double cache
    stale,     \* bool: the cache does not describe dq
    ret,       \* what the last call returned or threw
    pushed     \* the samples pushed since the last construction, pop or
               \* clear, newest last, cut to the last MaxCap + 1 of them

\* BMP280: the members of the controller and the course of a call.
VARIABLES
    i2caddr,   \* uint8_t: the bus address of the device
    tfine,     \* int32_t: written by Comp32FixedTemp, read by Comp32FixedPress
    cparams,   \* CalParams: the twelve coefficients and the loaded flag
    pc,        \* where the running public call stands ("ready": none runs)
    call,      \* the running or the last public call and its arguments
    trace,     \* the bus transactions and delays of that call, in order
    exc,       \* whether that call ended by a propagated transport failure
    cret,      \* what the last compensation returned
    rom        \* the calibration block in the ROM of the device

\* The callers of GetUncompData and GetComp32FixedData: threads that
\* share one controller.
VARIABLES
    th,        \* per thread: where its call stands, its locals, its result
    mtx,       \* std::mutex mtx: the thread that holds it, 0 when free
    locking,   \* whether the callers hold mtx for the whole of each call
    tfby,      \* the thread whose Comp32FixedTemp wrote tfine (0: none yet)
    clock      \* what time(nullptr) returns

cvars == <<i2caddr, tfine, cparams, pc, call, trace, exc, cret, rom>>

avars == <<th, mtx, locking, tfby, clock>>

vars == <<dq, qcap, t_high, t_low, t_avg, p_high, p_low, p_avg, stale,
          ret, pushed, i2caddr, tfine, cparams, pc, call, trace, exc, cret,
          rom, th, mtx, locking, tfby, clock>>

qvars == <<dq, qcap, t_high, t_low, t_avg, p_high, p_low, p_avg, stale,
           ret, pushed>>

cache == <<t_high, t_low, t_avg, p_high, p_low, p_avg>>

\* struct TP32Data.  The members are public, so a caller may push any
\* timestamp, temperature and pressure.
TP32Data(ts, temp, press) ==
    [timestamp |-> ts, temperature |-> temp, pressure |-> press]

\* The samples the callers push in this model: two ordinary readings whose
\* temperature and pressure are ordered in opposite ways, and the extreme
\* values of both fields.
Samples ==
    { TP32Data(1, 2100, FromInt(99500)),
      TP32Data(2, -1900, FromInt(100500)),
      TP32Data(3, INT32_MAX, UINT32_MAX) }

\* The capacities a queue is constructed with (the spec's data model asks
\* for a capacity of at least 1; 0 is also accepted by the constructor).
Capacities == 0 .. MaxCap

\* A returned value / a thrown runtime_error.
Returned(op, v) == [op |-> op, err |-> FALSE, val |-> v]

Thrown(op) == [op |-> op, err |-> TRUE, val |-> "runtime_error"]

\* TP32DataQueue::TP32DataQueue(int capacity)
QInit ==
    /\ dq = <<>>
    /\ qcap \in Capacities
    /\ t_high = INT32_MIN
    /\ t_low = INT32_MAX
    /\ t_avg = DoubleZero
    /\ p_high = W0
    /\ p_low = UINT32_MAX
    /\ p_avg = DoubleZero
    /\ stale = TRUE
    /\ ret = Returned("TP32DataQueue", 0)
    /\ pushed = <<>>


\* ------------------------------------------------------------------------
\* TP32DataQueue: the deque and the summary pass
\* ------------------------------------------------------------------------

\* The last n elements of a sequence (all of it when it is shorter).
LastN(q, n) ==
    IF Len(q) <= n THEN q ELSE SubSeq(q, Len(q) - n + 1, Len(q))

\* while (dq.size() > qcap) dq.pop_front();
RECURSIVE Evict(_, _)
Evict_fromBack(q, cap) ==
    IF Len(q) > cap THEN SubSeq(q, 1, cap) ELSE q

Evict_offByOne(q, cap) ==
    IF Len(q) > cap + 1 THEN LastN(q, cap + 1) ELSE q

Evict(q, cap) ==
    IF Len(q) > cap THEN Evict(Tail(q), cap) ELSE q

\* The accumulators of summarize() before the loop.  tsum is the int32_t
\* accumulator (kept wrapped once it has overflowed), texact the sum no
\* 32-bit register holds, tub whether a signed addition has overflowed,
\* psum the uint32_t accumulator.
SumStart ==
    [t_high |-> INT32_MIN, t_low |-> INT32_MAX,
     p_high |-> W0, p_low |-> UINT32_MAX,
     tsum |-> 0, texact |-> W0, tub |-> FALSE, psum |-> W0]

\* One iteration of the loop of summarize().
SumStep_sharedTest(a, tpd) ==
    LET temp  == tpd.temperature
        press == tpd.pressure
        t     == WAdd(FromInt(a.tsum), FromInt(temp))
    IN  [t_high |-> IF temp > a.t_high THEN temp ELSE a.t_high,
         t_low  |-> IF temp < a.t_low THEN temp ELSE a.t_low,
         p_high |-> IF temp > a.t_high THEN press ELSE a.p_high,
         p_low  |-> IF temp < a.t_low THEN press ELSE a.p_low,
         tsum   |-> ToInt(WrapS32(t)),
         texact |-> WAdd(a.texact, FromInt(temp)),
         tub    |-> a.tub \/ ~FitsS32(t),
         psum   |-> WrapU32(WAdd(a.psum, press))]

SumStep(a, tpd) ==
    LET temp  == tpd.temperature
        press == tpd.pressure
        t     == WAdd(FromInt(a.tsum), FromInt(temp))
    IN  [t_high |-> IF temp > a.t_high THEN temp ELSE a.t_high,
         t_low  |-> IF temp < a.t_low THEN temp ELSE a.t_low,
         p_high |-> IF WLt(a.p_high, press) THEN press ELSE a.p_high,
         p_low  |-> IF WLt(press, a.p_low) THEN press ELSE a.p_low,
         tsum   |-> ToInt(WrapS32(t)),
         texact |-> WAdd(a.texact, FromInt(temp)),
         tub    |-> a.tub \/ ~FitsS32(t),
         psum   |-> WrapU32(WAdd(a.psum, press))]

\* for (auto it = dq.cbegin(); it != dq.cend(); ++it) ...
RECURSIVE SumLoop(_, _)
SumLoop(a, q) ==
    IF q = <<>> THEN a ELSE SumLoop(SumStep(a, Head(q)), Tail(q))

\* The values tsum may hold after the loop.  A signed overflow of
\* tsum += temp is undefined: a build that keeps the accumulator in a
\* 32-bit register leaves the wrapped sum, one that keeps it in a wider
\* register leaves the exact sum.
TsumOutcomes(a) ==
    IF a.tub THEN {FromInt(a.tsum), a.texact} ELSE {FromInt(a.tsum)}

\* The members summarize() may leave for the content q, stale included.
summarize_clearsNothing(q, st) ==
    IF Len(q) > 0
    THEN LET a == SumLoop(SumStart, q)
         IN  { [t_high |-> a.t_high, t_low |-> a.t_low,
                t_avg  |-> DoubleDiv(ts, Len(q)),
                p_high |-> a.p_high, p_low |-> a.p_low,
                p_avg  |-> DoubleDiv(a.psum, Len(q)),
                stale  |-> st] : ts \in TsumOutcomes(a) }
    ELSE { [t_high |-> INT32_MIN, t_low |-> INT32_MAX, t_avg |-> DoubleZero,
            p_high |-> W0, p_low |-> UINT32_MAX, p_avg |-> DoubleZero,
            stale  |-> st] }

summarize_skipsEmpty(q, st) ==
    IF Len(q) > 0
    THEN LET a == SumLoop(SumStart, q)
         IN  { [t_high |-> a.t_high, t_low |-> a.t_low,
                t_avg  |-> DoubleDiv(ts, Len(q)),
                p_high |-> a.p_high, p_low |-> a.p_low,
                p_avg  |-> DoubleDiv(a.psum, Len(q)),
                stale  |-> FALSE] : ts \in TsumOutcomes(a) }
    ELSE { [t_high |-> t_high, t_low |-> t_low, t_avg |-> t_avg,
            p_high |-> p_high, p_low |-> p_low, p_avg |-> p_avg,
            stale  |-> st] }

summarize_outcomes(q, st) ==
    IF Len(q) > 0
    THEN LET a == SumLoop(SumStart, q)
         IN  { [t_high |-> a.t_high, t_low |-> a.t_low,
                t_avg  |-> DoubleDiv(ts, Len(q)),
                p_high |-> a.p_high, p_low |-> a.p_low,
                p_avg  |-> DoubleDiv(a.psum, Len(q)),
                stale  |-> FALSE] : ts \in TsumOutcomes(a) }
    ELSE { [t_high |-> INT32_MIN, t_low |-> INT32_MAX, t_avg |-> DoubleZero,
            p_high |-> W0, p_low |-> UINT32_MAX, p_avg |-> DoubleZero,
            stale  |-> st] }

\* The members take the values of the record c.
SetSummary(c) ==
    /\ t_high' = c.t_high
    /\ t_low' = c.t_low
    /\ t_avg' = c.t_avg
    /\ p_high' = c.p_high
    /\ p_low' = c.p_low
    /\ p_avg' = c.p_avg
    /\ stale' = c.stale

\* if (stale) this->summarize();
IfStaleSummarize ==
    IF stale
    THEN \E c \in summarize_outcomes(dq, stale) : SetSummary(c)
    ELSE UNCHANGED <<cache, stale>>

\* ------------------------------------------------------------------------
\* TP32DataQueue: the member functions
\* ------------------------------------------------------------------------

\* TP32Data TP32DataQueue::back()
back ==
    /\ ret' = IF Len(dq) < 1 THEN Thrown("back")
              ELSE Returned("back", dq[Len(dq)])
    /\ UNCHANGED <<dq, qcap, cache, stale, pushed>>

\* TP32Data TP32DataQueue::front()
front ==
    /\ ret' = IF Len(dq) < 1 THEN Thrown("front")
              ELSE Returned("front", Head(dq))
    /\ UNCHANGED <<dq, qcap, cache, stale, pushed>>

\* TP32Data TP32DataQueue::pop()
pop_keepsStale ==
    IF Len(dq) < 1
    THEN /\ ret' = Thrown("pop")
         /\ UNCHANGED <<dq, qcap, cache, stale, pushed>>
    ELSE /\ ret' = Returned("pop", Head(dq))
         /\ dq' = Tail(dq)
         /\ pushed' = <<>>
         /\ UNCHANGED <<qcap, cache, stale>>

pop_returnsDefault ==
    IF Len(dq) < 1
    THEN /\ ret' = Returned("pop", TP32Data(0, 0, W0))
         /\ UNCHANGED <<dq, qcap, cache, stale, pushed>>
    ELSE /\ ret' = Returned("pop", Head(dq))
         /\ dq' = Tail(dq)
         /\ stale' = TRUE
         /\ pushed' = <<>>
         /\ UNCHANGED <<qcap, cache>>

pop_fromBack ==
    IF Len(dq) < 1
    THEN /\ ret' = Thrown("pop")
         /\ UNCHANGED <<dq, qcap, cache, stale, pushed>>
    ELSE /\ ret' = Returned("pop", dq[Len(dq)])
         /\ dq' = SubSeq(dq, 1, Len(dq) - 1)
         /\ stale' = TRUE
         /\ pushed' = <<>>
         /\ UNCHANGED <<qcap, cache>>

pop ==
    IF Len(dq) < 1
    THEN /\ ret' = Thrown("pop")
         /\ UNCHANGED <<dq, qcap, cache, stale, pushed>>
    ELSE /\ ret' = Returned("pop", Head(dq))
         /\ dq' = Tail(dq)
         /\ stale' = TRUE
         /\ pushed' = <<>>
         /\ UNCHANGED <<qcap, cache>>

\* int TP32DataQueue::push(TP32Data tpd)
push_keepsStale(tpd) ==
    /\ dq' = Evict(Append(dq, tpd), qcap)
    /\ ret' = Returned("push", Len(dq'))
    /\ pushed' = LastN(Append(pushed, tpd), MaxCap + 1)
    /\ UNCHANGED <<qcap, cache, stale>>

push(tpd) ==
    /\ dq' = Evict(Append(dq, tpd), qcap)
    /\ stale' = TRUE
    /\ ret' = Returned("push", Len(dq'))
    /\ pushed' = LastN(Append(pushed, tpd), MaxCap + 1)
    /\ UNCHANGED <<qcap, cache>>

\* int TP32DataQueue::capacity()
capacity ==
    /\ ret' = Returned("capacity", qcap)
    /\ UNCHANGED <<dq, qcap, cache, stale, pushed>>

\* void TP32DataQueue::clear()
clear ==
    /\ dq' = <<>>
    /\ stale' = TRUE
    /\ ret' = Returned("clear", 0)
    /\ pushed' = <<>>
    /\ UNCHANGED <<qcap, cache>>

\* bool TP32DataQueue::full()
full_whenOver ==
    /\ ret' = Returned("full", Len(dq) > qcap)
    /\ UNCHANGED <<dq, qcap, cache, stale, pushed>>

full ==
    /\ ret' = Returned("full", Len(dq) >= qcap)
    /\ UNCHANGED <<dq, qcap, cache, stale, pushed>>

\* int TP32DataQueue::size()
size ==
    /\ ret' = Returned("size", Len(dq))
    /\ UNCHANGED <<dq, qcap, cache, stale, pushed>>

\* void TP32DataQueue::summarize()
summarize ==
    /\ \E c \in summarize_outcomes(dq, stale) : SetSummary(c)
    /\ ret' = Returned("summarize", 0)
    /\ UNCHANGED <<dq, qcap, pushed>>

\* time_t TP32DataQueue::timestart()
timestart ==
    /\ ret' = IF Len(dq) < 1 THEN Thrown("timestart")
              ELSE Returned("timestart", Head(dq).timestamp)
    /\ UNCHANGED <<dq, qcap, cache, stale, pushed>>

\* time_t TP32DataQueue::timestop()
timestop ==
    /\ ret' = IF Len(dq) < 1 THEN Thrown("timestop")
              ELSE Returned("timestop", dq[Len(dq)].timestamp)
    /\ UNCHANGED <<dq, qcap, cache, stale, pushed>>

\* int32_t TP32DataQueue::temperature_high()
temperature_high ==
    /\ IfStaleSummarize
    /\ ret' = Returned("temperature_high", t_high')
    /\ UNCHANGED <<dq, qcap, pushed>>

\* int32_t TP32DataQueue::temperature_low()
temperature_low ==
    /\ IfStaleSummarize
    /\ ret' = Returned("temperature_low", t_low')
    /\ UNCHANGED <<dq, qcap, pushed>>

\* double TP32DataQueue::temperature_average()
temperature_average ==
    /\ IfStaleSummarize
    /\ ret' = Returned("temperature_average", t_avg')
    /\ UNCHANGED <<dq, qcap, pushed>>

\* uint32_t TP32DataQueue::pressure_high()
pressure_high ==
    /\ IfStaleSummarize
    /\ ret' = Returned("pressure_high", p_high')
    /\ UNCHANGED <<dq, qcap, pushed>>

\* uint32_t TP32DataQueue::pressure_low()
pressure_low ==
    /\ IfStaleSummarize
    /\ ret' = Returned("pressure_low", p_low')
    /\ UNCHANGED <<dq, qcap, pushed>>

\* double TP32DataQueue::pressure_average()
pressure_average ==
    /\ IfStaleSummarize
    /\ ret' = Returned("pressure_average", p_avg')
    /\ UNCHANGED <<dq, qcap, pushed>>

\* TP32TemperatureSummary TP32DataQueue::TemperatureSummary()
\* The summary pass runs before front() throws on an empty queue.
TemperatureSummary ==
    /\ IfStaleSummarize
    /\ ret' = IF Len(dq) < 1 THEN Thrown("TemperatureSummary")
              ELSE Returned("TemperatureSummary",
                     [timestart   |-> Head(dq).timestamp,
                      timestop    |-> dq[Len(dq)].timestamp,
                      samplecount |-> Len(dq),
                      high        |-> t_high',
                      low         |-> t_low',
                      average     |-> t_avg'])
    /\ UNCHANGED <<dq, qcap, pushed>>

\* TP32PressureSummary TP32DataQueue::PressureSummary()
PressureSummary_stopAtFront ==
    /\ IfStaleSummarize
    /\ ret' = IF Len(dq) < 1 THEN Thrown("PressureSummary")
              ELSE Returned("PressureSummary",
                     [timestart   |-> Head(dq).timestamp,
                      timestop    |-> Head(dq).timestamp,
                      samplecount |-> Len(dq),
                      high        |-> p_high',
                      low         |-> p_low',
                      average     |-> p_avg'])
    /\ UNCHANGED <<dq, qcap, pushed>>

PressureSummary ==
    /\ IfStaleSummarize
    /\ ret' = IF Len(dq) < 1 THEN Thrown("PressureSummary")
              ELSE Returned("PressureSummary",
                     [timestart   |-> Head(dq).timestamp,
                      timestop    |-> dq[Len(dq)].timestamp,
                      samplecount |-> Len(dq),
                      high        |-> p_high',
                      low         |-> p_low',
                      average     |-> p_avg'])
    /\ UNCHANGED <<dq, qcap, pushed>>


\* ------------------------------------------------------------------------
\* BMP280: bytes, bus transactions and construction
\* ------------------------------------------------------------------------

\* A byte on the bus is a value the caller passed, a macro of the driver's
\* definitions header (which gives the macros their values and is not
\* among the sources: a macro stands for itself), or the bitwise AND of a
\* byte with a macro.
Imm(b) == [byte |-> b]

Macro(name) == [macro |-> name]

BitAnd(x, m) == [and |-> x, mask |-> m]

BMP280_R_CTRL == Macro("BMP280_R_CTRL")

BMP280_R_CONF == Macro("BMP280_R_CONF")

BMP280_R_RESET == Macro("BMP280_R_RESET")

BMP280_CMD_RESET == Macro("BMP280_CMD_RESET")

BMP280_MODE_MSK_OUT == Macro("BMP280_MODE_MSK_OUT")

BMP280_RESET_DELAY == Macro("BMP280_RESET_DELAY")

BMP280_CONFIG_DELAY == Macro("BMP280_CONFIG_DELAY")

\* i2cbus->Write(data, len, addr) and usleep(usec), as entries of trace.
\* ok is whether the transport carried the transaction out; when it did
\* not, the failure propagates out of the public call.
BusWrite(data, addr, ok) ==
    [bus |-> "Write", data |-> data, len |-> Len(data), addr |-> addr,
     ok |-> ok]

Usleep(usec) == [bus |-> "usleep", usec |-> usec]

\* A public call: SetConfig(int) keeps its preset, both SetConfig the
\* control and config bytes they write, a compensation its raw count.
Call(fn, preset, ctrl, conf, arg) ==
    [fn |-> fn, preset |-> preset, ctrl |-> ctrl, conf |-> conf, arg |-> arg]

NoCall == Call("none", 0, Imm(0), Imm(0), W0)

\* What a compensation returned: the value (wide), and of
\* Comp32FixedPress the numerator it tested and whether it divided; ub is
\* whether a signed overflow occurred on the way.
CompResult(fn, value, v1, divided, ub) ==
    [fn |-> fn, value |-> value, v1 |-> v1, divided |-> divided, ub |-> ub]

\* CalParams::CalParams()
CalParams ==
    [t1 |-> 0, t2 |-> 0, t3 |-> 0,
     p1 |-> 0, p2 |-> 0, p3 |-> 0, p4 |-> 0, p5 |-> 0, p6 |-> 0,
     p7 |-> 0, p8 |-> 0, p9 |-> 0, loaded |-> FALSE]

\* The bus addresses a controller is constructed with.
Addresses == {118, 119}

\* BMP280::BMP280(I2CBus* bus, uint8_t addr)
BMP280(addr) ==
    /\ i2caddr = addr
    /\ tfine = 0
    /\ cparams = CalParams
    /\ pc = "ready"
    /\ call = NoCall
    /\ trace = <<>>
    /\ exc = FALSE
    /\ cret = CompResult("none", W0, 0, FALSE, FALSE)

\* ------------------------------------------------------------------------
\* BMP280: Reset and SetConfig
\* ------------------------------------------------------------------------

\* The presets a caller passes: the six of the switch, the values next to
\* them and the ends of int.
MaxPreset == 8

Presets == (-1 .. MaxPreset) \cup {INT32_MIN, INT32_MAX}

\* The bytes a caller passes to SetConfig(uint8_t, uint8_t).
CtrlBytes == {0, 3, 87, 255}

ConfBytes == {0, 16, 255}

\* switch (preset) of SetConfig(int): the control and config bytes.
PresetBytes_fallsThrough(preset) ==
    CASE preset = 1 -> <<Macro("BMP280_CTRL_PRE1"), Macro("BMP280_CONF_PRE1")>>
      [] preset = 2 -> <<Macro("BMP280_CTRL_PRE2"), Macro("BMP280_CONF_PRE2")>>
      [] preset = 3 -> <<Macro("BMP280_CTRL_PRE3"), Macro("BMP280_CONF_PRE3")>>
      [] preset = 4 -> <<Macro("BMP280_CTRL_PRE4"), Macro("BMP280_CONF_PRE4")>>
      [] preset = 5 -> <<Macro("BMP280_CTRL_PRE5"), Macro("BMP280_CONF_PRE5")>>
      [] preset = 6 -> <<Macro("BMP280_CTRL_PRE6"), Macro("BMP280_CONF_PRE6")>>
      [] OTHER      -> <<Macro("BMP280_CTRL_PRE6"), Macro("BMP280_CONF_PRE6")>>

PresetBytes(preset) ==
    CASE preset = 1 -> <<Macro("BMP280_CTRL_PRE1"), Macro("BMP280_CONF_PRE1")>>
      [] preset = 2 -> <<Macro("BMP280_CTRL_PRE2"), Macro("BMP280_CONF_PRE2")>>
      [] preset = 3 -> <<Macro("BMP280_CTRL_PRE3"), Macro("BMP280_CONF_PRE3")>>
      [] preset = 4 -> <<Macro("BMP280_CTRL_PRE4"), Macro("BMP280_CONF_PRE4")>>
      [] preset = 5 -> <<Macro("BMP280_CTRL_PRE5"), Macro("BMP280_CONF_PRE5")>>
      [] preset = 6 -> <<Macro("BMP280_CTRL_PRE6"), Macro("BMP280_CONF_PRE6")>>
      [] OTHER      -> <<Macro("BMP280_CTRL_PRE1"), Macro("BMP280_CONF_PRE1")>>

\* uint8_t dat[] of SetConfig(uint8_t, uint8_t), ctrx being
\* ctrl & BMP280_MODE_MSK_OUT.
SetConfigDat_confLast(ctrl, conf) ==
    << BMP280_R_CTRL, BitAnd(ctrl, BMP280_MODE_MSK_OUT),
       BMP280_R_CTRL, ctrl, BMP280_R_CONF, conf >>

SetConfigDat(ctrl, conf) ==
    << BMP280_R_CTRL, BitAnd(ctrl, BMP280_MODE_MSK_OUT),
       BMP280_R_CONF, conf, BMP280_R_CTRL, ctrl >>

\* A public call begins: it is recorded and nothing of it has run yet.
Begin(c, at) ==
    /\ pc = "ready"
    /\ call' = c
    /\ trace' = <<>>
    /\ exc' = FALSE
    /\ pc' = at
    /\ UNCHANGED <<i2caddr, tfine, cparams, cret, rom>>

\* void BMP280::SetConfig(int preset): the switch, then the call of
\* SetConfig(ctrl, conf), which starts with Reset().
SetConfig_preset(preset) ==
    Begin(Call("SetConfig(int)", preset,
               PresetBytes(preset)[1], PresetBytes(preset)[2], W0),
          "Reset")

\* void BMP280::SetConfig(uint8_t ctrl, uint8_t conf), called directly.
SetConfig(ctrl, conf) ==
    Begin(Call("SetConfig(uint8_t,uint8_t)", 0, Imm(ctrl), Imm(conf), W0),
          "Reset")

\* void BMP280::Reset(), called directly.
Reset ==
    Begin(Call("Reset", 0, Imm(0), Imm(0), W0), "Reset")

\* Reset(): i2cbus->Write(dat, 2, i2caddr).  A transport failure ends the
\* public call.
Reset_Write_goesOn ==
    /\ pc = "Reset"
    /\ \E ok \in BOOLEAN :
         /\ trace' = Append(trace,
                BusWrite(<<BMP280_R_RESET, BMP280_CMD_RESET>>, i2caddr, ok))
         /\ exc' = ~ok
         /\ pc' = "Reset_usleep"
    /\ UNCHANGED <<i2caddr, tfine, cparams, call, cret, rom>>

Reset_Write ==
    /\ pc = "Reset"
    /\ \E ok \in BOOLEAN :
         /\ trace' = Append(trace,
                BusWrite(<<BMP280_R_RESET, BMP280_CMD_RESET>>, i2caddr, ok))
         /\ exc' = ~ok
         /\ pc' = IF ok THEN "Reset_usleep" ELSE "ready"
    /\ UNCHANGED <<i2caddr, tfine, cparams, call, cret, rom>>

\* Reset(): usleep(BMP280_RESET_DELAY), and the return to the caller.
Reset_usleep ==
    /\ pc = "Reset_usleep"
    /\ trace' = Append(trace, Usleep(BMP280_RESET_DELAY))
    /\ pc' = IF call.fn = "Reset" THEN "ready" ELSE "SetRegs"
    /\ UNCHANGED <<i2caddr, tfine, cparams, call, exc, cret, rom>>

\* SetConfig(ctrl, conf): this->SetRegs(dat, 6), one bus write.
SetConfig_SetRegs ==
    /\ pc = "SetRegs"
    /\ \E ok \in BOOLEAN :
         /\ trace' = Append(trace,
                BusWrite(SetConfigDat(call.ctrl, call.conf), i2caddr, ok))
         /\ exc' = ~ok
         /\ pc' = IF ok THEN "SetConfig_usleep" ELSE "ready"
    /\ UNCHANGED <<i2caddr, tfine, cparams, call, cret, rom>>

\* SetConfig(ctrl, conf): usleep(BMP280_CONFIG_DELAY), and the return.
SetConfig_usleep ==
    /\ pc = "SetConfig_usleep"
    /\ trace' = Append(trace, Usleep(BMP280_CONFIG_DELAY))
    /\ pc' = "ready"
    /\ UNCHANGED <<i2caddr, tfine, cparams, call, exc, cret, rom>>

\* ------------------------------------------------------------------------
\* 32-bit arithmetic of the compensation functions
\* ------------------------------------------------------------------------

Pow2(n) == 2 ^ n

WSub(a, b) == WNorm(a.hi - b.hi, a.lo - b.lo)

\* The product of two 16-bit limbs, as a wide integer.
Mul16(x, y) ==
    LET c == (x \div 256) * y
    IN  WAdd(WNorm(c \div 256, (c % 256) * 256), FromInt((x % 256) * y))

\* uint32_t arithmetic, modulo 2^32, on wide integers.
UMul32(a, b) ==
    LET p0 == Mul16(a.lo, b.lo)
        c1 == Mul16(a.hi, b.lo).lo
        c2 == Mul16(a.lo, b.hi).lo
    IN  WrapU32(WNorm(p0.hi + c1 + c2, p0.lo))

USub32(a, b) == WrapU32(WSub(a, b))

UShl1(a) == WrapU32(WNorm(2 * a.hi, 2 * a.lo))

\* a >> k for 0 < k < 16.
UShr(a, k) ==
    [hi |-> a.hi \div Pow2(k),
     lo |-> (a.lo \div Pow2(k)) + ((a.hi % Pow2(k)) * Pow2(16 - k))]

\* The product of a wide integer by a small natural number.
WMulSmall(a, d) == WNorm(a.hi * d, a.lo * d)

\* One digit of a long division in base 256: the d with d*b <= cur and
\* cur < (d+1)*b, for 0 <= cur < 256*b.
DivDigit(cur, b) ==
    CHOOSE d \in 0 .. 255 :
        ~WLt(cur, WMulSmall(b, d)) /\ WLt(cur, WMulSmall(b, d + 1))

\* a / b of two uint32_t, b > 0: long division over the four bytes of a.
UDiv32(a, b) ==
    LET c3 == FromInt(a.hi \div 256)
        q3 == DivDigit(c3, b)
        r3 == WSub(c3, WMulSmall(b, q3))
        c2 == WAdd(WMulSmall(r3, 256), FromInt(a.hi % 256))
        q2 == DivDigit(c2, b)
        r2 == WSub(c2, WMulSmall(b, q2))
        c1 == WAdd(WMulSmall(r2, 256), FromInt(a.lo \div 256))
        q1 == DivDigit(c1, b)
        r1 == WSub(c1, WMulSmall(b, q1))
        c0 == WAdd(WMulSmall(r1, 256), FromInt(a.lo % 256))
        q0 == DivDigit(c0, b)
    IN  [hi |-> (q3 * 256) + q2, lo |-> (q1 * 256) + q0]

\* The conversions (uint32_t)x of an int32_t and (int32_t)a of a uint32_t.
ToU32(x) == WrapU32(FromInt(x))

ToS32(a) == ToInt(WrapS32(a))

\* int32_t arithmetic: whether the exact result is an int32_t, and the
\* result reduced to 32 bits.
AddOK(a, b) == FitsS32(WAdd(FromInt(a), FromInt(b)))

AddWrap(a, b) == ToS32(WAdd(FromInt(a), FromInt(b)))

SubOK(a, b) == FitsS32(WSub(FromInt(a), FromInt(b)))

SubWrap(a, b) == ToS32(WSub(FromInt(a), FromInt(b)))

Abs(x) == IF x < 0 THEN -x ELSE x

MulOK(a, b) ==
    IF a = 0 \/ b = 0 THEN TRUE
    ELSE IF a = INT32_MIN THEN b = 1
    ELSE IF b = INT32_MIN THEN a = 1
    ELSE LET x == Abs(a)
             y == Abs(b)
             q == INT32_MAX \div y
             r == INT32_MAX % y
         IN  IF (a > 0) = (b > 0) THEN x <= q
             ELSE x <= q \/ (x = q + 1 /\ r = y - 1)

MulWrap(a, b) == ToS32(UMul32(ToU32(a), ToU32(b)))

\* x >> k of an int32_t: the arithmetic shift every supported build makes.
Shr(x, k) == x \div Pow2(k)

\* x << k of an int32_t is x * 2^k.
ShlOK(x, k) == MulOK(x, Pow2(k))

ShlWrap(x, k) == MulWrap(x, Pow2(k))

\* A signed overflow is undefined.  The builds of this code leave some
\* 32-bit value in the overflowed intermediate and go on: the wrapped
\* result, or another value, of which zero and INT32_MAX stand here.
UBOutcomes == {"wrap", "zero", "max"}

Ov(u, ok, wrapped) ==
    IF ok \/ u = "wrap" THEN wrapped
    ELSE IF u = "zero" THEN 0 ELSE INT32_MAX

\* The int32_t operations of the compensation functions: v is the value
\* the operation leaves, ok whether it was defined.
SAdd(u, a, b) == [v |-> Ov(u, AddOK(a, b), AddWrap(a, b)), ok |-> AddOK(a, b)]

SSub(u, a, b) == [v |-> Ov(u, SubOK(a, b), SubWrap(a, b)), ok |-> SubOK(a, b)]

SMul(u, a, b) == [v |-> Ov(u, MulOK(a, b), MulWrap(a, b)), ok |-> MulOK(a, b)]

SShl(u, a, k) == [v |-> Ov(u, ShlOK(a, k), ShlWrap(a, k)), ok |-> ShlOK(a, k)]

\* ------------------------------------------------------------------------
\* BMP280: calibration and compensation
\* ------------------------------------------------------------------------

\* The two bytes {high, low} that hold a 16-bit coefficient in the ROM.
Bytes16(v) == << (v % 65536) \div 256, v % 256 >>

\* The calibration block of a device, by the coefficient each pair of
\* bytes holds (the BMP280_CAL_*_NDX pick the high and the low byte).
CalBlock(t1, t2, t3, p1, p2, p3, p4, p5, p6, p7, p8, p9) ==
    [t1 |-> Bytes16(t1), t2 |-> Bytes16(t2), t3 |-> Bytes16(t3),
     p1 |-> Bytes16(p1), p2 |-> Bytes16(p2), p3 |-> Bytes16(p3),
     p4 |-> Bytes16(p4), p5 |-> Bytes16(p5), p6 |-> Bytes16(p6),
     p7 |-> Bytes16(p7), p8 |-> Bytes16(p8), p9 |-> Bytes16(p9)]

\* The devices of the model: the worked example of the data sheet, the
\* same with P1 = 1, a blank ROM, and coefficients at the ends of their
\* ranges.
DataSheetBlock ==
    CalBlock(27504, 26435, -1000, 36477, -10685, 3024, 2855, 140, -7,
             15500, -14600, 6000)

CalBlocks ==
    { DataSheetBlock,
      CalBlock(27504, 26435, -1000, 1, -10685, 3024, 2855, 140, -7,
               15500, -14600, 6000),
      CalBlock(0, 0, 0, 0, 0, 0, 0, 0, 0, 0, 0, 0),
      CalBlock(65535, 32767, -32768, 65535, 32767, -32768, 32767, -32768,
               32767, -32768, 32767, -32768) }

\* The raw counts passed to the compensation functions: for the
\* temperature both ends of the 20-bit range, the count of the vendor's
\* example and that of a cold day (-12.64 C with the example's
\* coefficients).
RawTemps == {0, 400000, 519888, 1048575}

RawPress == {FromInt(0), FromInt(415148), FromInt(1048575), UINT32_MAX}

\* ((uint16_t)h << 8) | (uint16_t)l, stored in a uint16_t.
U16(hl) == ((hl[1] * 256) + hl[2]) % 65536

\* ((int16_t)h << 8) | (int16_t)l, stored in an int16_t.
S16(hl) ==
    LET x == ((hl[1] * 256) + hl[2]) % 65536
    IN  IF x >= 32768 THEN x - 65536 ELSE x

\* The assignments of LoadCalParams() from the bytes read.
ParseCal(dat) ==
    [t1 |-> U16(dat.t1), t2 |-> S16(dat.t2), t3 |-> S16(dat.t3),
     p1 |-> U16(dat.p1), p2 |-> S16(dat.p2), p3 |-> S16(dat.p3),
     p4 |-> S16(dat.p4), p5 |-> S16(dat.p5), p6 |-> S16(dat.p6),
     p7 |-> S16(dat.p7), p8 |-> S16(dat.p8), p9 |-> S16(dat.p9),
     loaded |-> TRUE]

\* Comp32FixedTemp, statement by statement.  Each takes the values it
\* reads, the coefficients cp and what an undefined operation leaves (u),
\* and gives the value assigned (v) and whether the statement was defined
\* (ok).

\* v1 = (((unctemp >> 3)-(t1 << 1))*t2) >> 11;
TempV1(unctemp, cp, u) ==
    LET sh == SShl(u, cp.t1, 1)
        d  == SSub(u, Shr(unctemp, 3), sh.v)
        m  == SMul(u, d.v, cp.t2)
    IN  [v |-> Shr(m.v, 11), ok |-> sh.ok /\ d.ok /\ m.ok]

\* v1a = ((unctemp >> 4)-t1) * ((unctemp >> 4)-t1);
TempV1a_shift3(unctemp, cp, u) ==
    LET d == SSub(u, Shr(unctemp, 3), cp.t1)
        m == SMul(u, d.v, d.v)
    IN  [v |-> m.v, ok |-> d.ok /\ m.ok]

TempV1a(unctemp, cp, u) ==
    LET d == SSub(u, Shr(unctemp, 4), cp.t1)
        m == SMul(u, d.v, d.v)
    IN  [v |-> m.v, ok |-> d.ok /\ m.ok]

\* v2 = ( (v1a >> 12) * t3 ) >> 14;
TempV2(v1a, cp, u) ==
    LET m == SMul(u, Shr(v1a, 12), cp.t3)
    IN  [v |-> Shr(m.v, 14), ok |-> m.ok]

\* temperature = (5*tfine + 128) >> 8;
TempResult(tf, u) ==
    LET m == SMul(u, 5, tf)
        a == SAdd(u, m.v, 128)
    IN  [v |-> Shr(a.v, 8), ok |-> m.ok /\ a.ok]

\* The arithmetic of Comp32FixedTemp for the raw count unctemp and the
\* coefficients cp: the value returned, the tfine written, and whether a
\* signed overflow occurred (u is then what it left).
Comp32FixedTempCalc(unctemp, cp, u) ==
    LET v1  == TempV1(unctemp, cp, u)
        v1a == TempV1a(unctemp, cp, u)
        v2  == TempV2(v1a.v, cp, u)
        tf  == SAdd(u, v1.v, v2.v)
        t   == TempResult(tf.v, u)
    IN  [temperature |-> t.v,
         tfine |-> tf.v,
         ub |-> ~(v1.ok /\ v1a.ok /\ v2.ok /\ tf.ok /\ t.ok)]

\* Comp32FixedPress, statement by statement, in the same way.

\* v1 = (tfine >> 1) - 64000;
PressV1(tf, u) == SSub(u, Shr(tf, 1), 64000)

\* v1a = (v1 >> 2)*(v1 >> 2);
PressV1a(v1, u) == SMul(u, Shr(v1, 2), Shr(v1, 2))

\* v2 = (v1a >> 11)*p6 + ((v1*p5) << 1);
PressV2(v1, v1a, cp, u) ==
    LET m1 == SMul(u, Shr(v1a, 11), cp.p6)
        m2 == SMul(u, v1, cp.p5)
        sh == SShl(u, m2.v, 1)
        a  == SAdd(u, m1.v, sh.v)
    IN  [v |-> a.v, ok |-> m1.ok /\ m2.ok /\ sh.ok /\ a.ok]

\* v2 = (v2 >> 2) + (p4 << 16);
PressV2b(v2, cp, u) ==
    LET sh == SShl(u, cp.p4, 16)
        a  == SAdd(u, Shr(v2, 2), sh.v)
    IN  [v |-> a.v, ok |-> sh.ok /\ a.ok]

\* v1 = (((p3*(v1a >> 13)) >> 3) + ((p2*v1) >> 1)) >> 18;
PressV1b(v1, v1a, cp, u) ==
    LET m1 == SMul(u, cp.p3, Shr(v1a, 13))
        m2 == SMul(u, cp.p2, v1)
        a  == SAdd(u, Shr(m1.v, 3), Shr(m2.v, 1))
    IN  [v |-> Shr(a.v, 18), ok |-> m1.ok /\ m2.ok /\ a.ok]

\* v1 = ((((32768 + v1))*p1) >> 15);
PressV1c(v1, cp, u) ==
    LET a == SAdd(u, 32768, v1)
        m == SMul(u, a.v, cp.p1)
    IN  [v |-> Shr(m.v, 15), ok |-> a.ok /\ m.ok]

\* v3 = ( (uint32_t)(1048576 - uncpress)-(v2 >> 12) ) * 3125;
PressV3(uncpress, v2) ==
    UMul32(USub32(USub32(FromInt(1048576), uncpress), ToU32(Shr(v2, 12))),
           FromInt(3125))

\* Comp32FixedPress up to the test if (v1 != 0), for the raw count
\* uncpress (a uint32_t), the tfine read tf and the coefficients cp: the
\* scaling numerator v1, v2 and v3 as they stand at the test, and whether
\* every signed operation so far was defined.
PressHead(uncpress, tf, cp, u) ==
    LET v1  == PressV1(tf, u)
        v1a == PressV1a(v1.v, u)
        v2  == PressV2(v1.v, v1a.v, cp, u)
        v2b == PressV2b(v2.v, cp, u)
        v1b == PressV1b(v1.v, v1a.v, cp, u)
        v1c == PressV1c(v1b.v, cp, u)
    IN  [v1 |-> v1c.v, v2 |-> v2b.v, v3 |-> PressV3(uncpress, v2b.v),
         ok |-> v1.ok /\ v1a.ok /\ v2.ok /\ v2b.ok /\ v1b.ok /\ v1c.ok]

\* if (v3 < 0x80000000) v3 = (v3 << 1)/v1b; else v3 = (v3/v1b)*2;
PressDivide(v3, v1b) ==
    IF v3.hi < 32768
    THEN UDiv32(UShl1(v3), v1b)
    ELSE UMul32(UDiv32(v3, v1b), FromInt(2))

\* v3a = (v3 >> 3)*(v3 >> 3);
\* v1 = (p9 * (int32_t)(v3a >> 13)) >> 12;
PressV1d(v3, cp, u) ==
    LET m == SMul(u, cp.p9,
                  ToS32(UShr(UMul32(UShr(v3, 3), UShr(v3, 3)), 13)))
    IN  [v |-> Shr(m.v, 12), ok |-> m.ok]

\* v2 = (((int32_t)(v3 >> 2)) * p8) >> 13;
PressV2c(v3, cp, u) ==
    LET m == SMul(u, ToS32(UShr(v3, 2)), cp.p8)
    IN  [v |-> Shr(m.v, 13), ok |-> m.ok]

\* pressure = (uint32_t)( (int32_t)v3 + ((v1+v2+p7) >> 4) );
PressResult(v3, v1, v2, cp, u) ==
    LET a1 == SAdd(u, v1, v2)
        a2 == SAdd(u, a1.v, cp.p7)
        a3 == SAdd(u, ToS32(v3), Shr(a2.v, 4))
    IN  [v |-> ToU32(a3.v), ok |-> a1.ok /\ a2.ok /\ a3.ok]

\* The branch of Comp32FixedPress taken when v1 != 0, from the quotient
\* v3 and the values h at the test.
PressFinish(v3, h, cp, u) ==
    LET v1 == PressV1d(v3, cp, u)
        v2 == PressV2c(v3, cp, u)
        p  == PressResult(v3, v1.v, v2.v, cp, u)
    IN  [pressure |-> p.v, v1 |-> h.v1, divided |-> TRUE,
         ub |-> ~(h.ok /\ v1.ok /\ v2.ok /\ p.ok)]

\* The quotient is bound, to be computed once.
PressTail(h, cp, u) ==
    CHOOSE r \in { PressFinish(v3, h, cp, u) :
                       v3 \in {PressDivide(h.v3, ToU32(h.v1))} } : TRUE

\* The arithmetic of Comp32FixedPress: the value returned, the scaling
\* numerator v1 that if (v1 != 0) tested, whether the division ran, and
\* whether a signed overflow occurred.  The values at the test are bound
\* as h, to be computed once.
Comp32FixedPressCalc_zeroReturnsRaw(uncpress, tf, cp, u) ==
    CHOOSE r \in { IF h.v1 # 0
                      THEN PressTail(h, cp, u)
                      ELSE [pressure |-> uncpress, v1 |-> h.v1,
                            divided |-> FALSE, ub |-> ~h.ok] :
                   h \in {PressHead(uncpress, tf, cp, u)} } : TRUE

Comp32FixedPressCalc(uncpress, tf, cp, u) ==
    CHOOSE r \in { IF h.v1 # 0
                      THEN PressTail(h, cp, u)
                      ELSE [pressure |-> W0, v1 |-> h.v1,
                            divided |-> FALSE, ub |-> ~h.ok] :
                   h \in {PressHead(uncpress, tf, cp, u)} } : TRUE

\* i2cbus->Xfer(startaddr, data, len, i2caddr), as an entry of trace.
BusXfer(startaddr, len, addr, ok) ==
    [bus |-> "Xfer", startaddr |-> startaddr, len |-> len, addr |-> addr,
     ok |-> ok]

\* void BMP280::LoadCalParams(), called directly.
LoadCalParams ==
    Begin(Call("LoadCalParams", 0, Imm(0), Imm(0), W0), "LoadCalParams")

\* int32_t BMP280::Comp32FixedTemp(int32_t unctemp):
\* if (!cparams.loaded) this->LoadCalParams();
Comp32FixedTemp_alwaysLoads(unctemp) ==
    Begin(Call("Comp32FixedTemp", 0, Imm(0), Imm(0), FromInt(unctemp)),
          "LoadCalParams")

Comp32FixedTemp(unctemp) ==
    Begin(Call("Comp32FixedTemp", 0, Imm(0), Imm(0), FromInt(unctemp)),
          IF cparams.loaded THEN "Comp32FixedTemp" ELSE "LoadCalParams")

\* uint32_t BMP280::Comp32FixedPress(uint32_t uncpress):
\* if (!cparams.loaded) this->LoadCalParams();
Comp32FixedPress(uncpress) ==
    Begin(Call("Comp32FixedPress", 0, Imm(0), Imm(0), uncpress),
          IF cparams.loaded THEN "Comp32FixedPress" ELSE "LoadCalParams")

\* LoadCalParams(): the read of the calibration block and, when the
\* transport carried it out, the twelve assignments and loaded = true.
\* A transport failure ends the public call before any assignment.
LoadCalParams_GetRegs ==
    /\ pc = "LoadCalParams"
    /\ \E ok \in BOOLEAN :
         /\ trace' = Append(trace,
                BusXfer(Macro("BMP280_CAL_START"), Macro("BMP280_CAL_SIZE"),
                        i2caddr, ok))
         /\ exc' = ~ok
         /\ cparams' = IF ok THEN ParseCal(rom) ELSE cparams
         /\ pc' = IF ok /\ call.fn # "LoadCalParams" THEN call.fn ELSE "ready"
    /\ UNCHANGED <<i2caddr, tfine, call, cret, rom>>

\* Comp32FixedTemp after the calibration is there: the arithmetic, the
\* write of tfine and the return.
Comp32FixedTemp_calc ==
    /\ pc = "Comp32FixedTemp"
    /\ \E u \in UBOutcomes :
         \E r \in {Comp32FixedTempCalc(ToInt(call.arg), cparams, u)} :
             /\ tfine' = r.tfine
             /\ cret' = CompResult("Comp32FixedTemp", FromInt(r.temperature),
                                   0, FALSE, r.ub)
    /\ pc' = "ready"
    /\ UNCHANGED <<i2caddr, cparams, call, trace, exc, rom>>

\* Comp32FixedPress after the calibration is there: the arithmetic on the
\* tfine that stands in the controller, and the return.
Comp32FixedPress_calc ==
    /\ pc = "Comp32FixedPress"
    /\ \E u \in UBOutcomes :
         \E r \in {Comp32FixedPressCalc(call.arg, tfine, cparams, u)} :
             cret' = CompResult("Comp32FixedPress", r.pressure, r.v1,
                                r.divided, r.ub)
    /\ pc' = "ready"
    /\ UNCHANGED <<i2caddr, tfine, cparams, call, trace, exc, rom>>

\* ------------------------------------------------------------------------
\* BMP280: GetUncompData and GetComp32FixedData, called by threads
\* ------------------------------------------------------------------------

\* The threads that call the controller, and how far time(nullptr) goes.
\* No member function locks mtx; threads that call without it race on
\* tfine and cparams, and every order of their steps below is an outcome.
Threads == {1, 2}

MaxClock == 1

\* a | b of two non-negative integers below 2^n.
RECURSIVE BitOrN(_, _, _)
BitOrN(a, b, n) ==
    IF n = 0 THEN 0
    ELSE (IF a % 2 = 1 \/ b % 2 = 1 THEN 1 ELSE 0)
         + 2 * BitOrN(a \div 2, b \div 2, n - 1)

BitOr(a, b) == BitOrN(a, b, 31)

\* The six data registers from BMP280_R_PMSB on, as the device may hold
\* them: the counts of the vendor's example (pressure 415148, temperature
\* 519888), and all bits set.
DataRegs ==
    { <<101, 90, 192, 126, 237, 0>>,
      <<255, 255, 255, 255, 255, 255>> }

\* The bytes a data register holds when one caller reads the device: no
\* bit set, one nibble set, both, and a mixed pattern.
RawBytes == {0, 15, 165, 240, 255}

\* All contents of the six data registers made of these bytes.
RawRegs ==
    { <<b0, b1, b2, b3, b4, b5>> :
        b0 \in RawBytes, b1 \in RawBytes, b2 \in RawBytes,
        b3 \in RawBytes, b4 \in RawBytes, b5 \in RawBytes }

\* unc.pressure of GetUncompData, a uint32_t (wide): dat[0..2].
UnpackPressure_keepsLowNibble(dat) ==
    FromInt(BitOr(BitOr(dat[1] * Pow2(12), dat[2] * Pow2(4)), dat[3]))

UnpackPressure(dat) ==
    FromInt(BitOr(BitOr(dat[1] * Pow2(12), dat[2] * Pow2(4)),
                  dat[3] \div Pow2(4)))

\* unc.temperature of GetUncompData, an int32_t: dat[3..5].  The bytes
\* are converted to int32_t before the shifts, which cannot overflow.
UnpackTemperature_signExtends(dat) ==
    LET v == BitOr(BitOr(dat[4] * Pow2(12), dat[5] * Pow2(4)),
                   dat[6] \div Pow2(4))
    IN  IF v >= Pow2(19) THEN v - Pow2(20) ELSE v

UnpackTemperature(dat) ==
    BitOr(BitOr(dat[4] * Pow2(12), dat[5] * Pow2(4)), dat[6] \div Pow2(4))

\* reading.timestamp = unc.timestamp;
ReadingStamp_keepsOwn(reading, unc) == reading

ReadingStamp(reading, unc) == [reading EXCEPT !.timestamp = unc.timestamp]

\* A thread that calls nothing: its locals, the steps of its call so far
\* (log), whether the call ended by a propagated transport failure, and
\* what it returned.
Idle ==
    [pc |-> "idle", fn |-> "none",
     reading |-> TP32Data(0, 0, W0), unc |-> TP32Data(0, 0, W0),
     dat |-> <<0, 0, 0, 0, 0, 0>>,
     log |-> <<>>, exc |-> FALSE, returned |-> FALSE,
     ret |-> TP32Data(0, 0, W0)]

\* No thread calls GetUncompData or GetComp32FixedData.
NoThreads ==
    /\ th = [t \in Threads |-> Idle]
    /\ mtx = 0
    /\ locking = FALSE
    /\ tfby = 0
    /\ clock = 0

\* Where a thread stands when it may enter a call and when it has left
\* one, under the discipline of the callers.
EntryPc == IF locking THEN "locked" ELSE "idle"

ExitPc == IF locking THEN "unlock" ELSE "idle"

\* A step of the compensation in the log of a call.
CompStep(fn, arg, tf, by) ==
    [bus |-> fn, arg |-> arg, tfine |-> tf, by |-> by]

\* What no step of a thread touches.
ThreadFrame ==
    UNCHANGED <<qvars, i2caddr, pc, call, trace, exc, cret, rom, locking>>

\* The caller locks and unlocks the mutex the controller exposes.
lock_noExclusion(t) ==
    /\ locking
    /\ th[t].pc = "idle"
    /\ mtx' = t
    /\ th' = [th EXCEPT ![t].pc = "locked"]
    /\ ThreadFrame
    /\ UNCHANGED <<tfine, cparams, tfby, clock>>

lock(t) ==
    /\ locking
    /\ th[t].pc = "idle"
    /\ mtx = 0
    /\ mtx' = t
    /\ th' = [th EXCEPT ![t].pc = "locked"]
    /\ ThreadFrame
    /\ UNCHANGED <<tfine, cparams, tfby, clock>>

unlock(t) ==
    /\ th[t].pc = "unlock"
    /\ mtx' = 0
    /\ th' = [th EXCEPT ![t].pc = "idle"]
    /\ ThreadFrame
    /\ UNCHANGED <<tfine, cparams, tfby, clock>>

\* time(nullptr) moves on.
tick ==
    /\ clock < MaxClock
    /\ clock' = clock + 1
    /\ ThreadFrame
    /\ UNCHANGED <<th, mtx, tfine, cparams, tfby>>

\* TP32Data BMP280::GetUncompData(), called directly.
GetUncompData(t) ==
    /\ th[t].pc = EntryPc
    /\ th' = [th EXCEPT ![t] =
                [Idle EXCEPT !.pc = "GetUncompData", !.fn = "GetUncompData"]]
    /\ ThreadFrame
    /\ UNCHANGED <<mtx, tfine, cparams, tfby, clock>>

\* TP32Data BMP280::GetComp32FixedData(): TP32Data reading; and the call
\* of GetUncompData().
GetComp32FixedData(t) ==
    /\ th[t].pc = EntryPc
    /\ th' = [th EXCEPT ![t] =
                [Idle EXCEPT !.pc = "GetUncompData",
                             !.fn = "GetComp32FixedData",
                             !.reading = TP32Data(clock, 0, W0)]]
    /\ ThreadFrame
    /\ UNCHANGED <<mtx, tfine, cparams, tfby, clock>>

\* GetUncompData(): TP32Data unc; the read of the six data registers and
\* the two unpackings; then the return, and in GetComp32FixedData the
\* copy of the timestamp.  A transport failure ends the public call.
\* regs: what the six data registers may hold.
GetUncompData_body(t, regs) ==
    /\ th[t].pc = "GetUncompData"
    /\ \E ok \in BOOLEAN, dat \in regs :
         LET xfer == BusXfer(Macro("BMP280_R_PMSB"), 6, i2caddr, ok)
             unc  == TP32Data(clock, UnpackTemperature(dat),
                              UnpackPressure(dat))
         IN  th' = [th EXCEPT ![t] =
               IF ~ok
               THEN [@ EXCEPT !.log = Append(@, xfer), !.exc = TRUE,
                              !.pc = ExitPc]
               ELSE IF @.fn = "GetUncompData"
               THEN [@ EXCEPT !.log = Append(@, xfer), !.unc = unc,
                              !.dat = dat,
                              !.ret = unc, !.returned = TRUE,
                              !.pc = ExitPc]
               ELSE [@ EXCEPT !.log = Append(@, xfer), !.unc = unc,
                              !.dat = dat,
                              !.reading = ReadingStamp(@, unc),
                              !.pc = "Comp32FixedTemp"]]
    /\ ThreadFrame
    /\ UNCHANGED <<mtx, tfine, cparams, tfby, clock>>

\* The same with the data registers of the device that two threads read.
GetUncompData_GetRegs(t) == GetUncompData_body(t, DataRegs)

\* The same with the data registers of the device that one caller reads.
GetUncompData_GetRawRegs(t) == GetUncompData_body(t, RawRegs)

\* Comp32FixedTemp / Comp32FixedPress in GetComp32FixedData:
\* if (!cparams.loaded) this->LoadCalParams();
GetComp_LoadCalParams(t) ==
    /\ th[t].pc \in {"Comp32FixedTemp", "Comp32FixedPress"}
    /\ ~cparams.loaded
    /\ \E ok \in BOOLEAN :
         LET xfer == BusXfer(Macro("BMP280_CAL_START"),
                             Macro("BMP280_CAL_SIZE"), i2caddr, ok)
         IN  /\ cparams' = IF ok THEN ParseCal(rom) ELSE cparams
             /\ th' = [th EXCEPT ![t] =
                  IF ok THEN [@ EXCEPT !.log = Append(@, xfer)]
                  ELSE [@ EXCEPT !.log = Append(@, xfer), !.exc = TRUE,
                                 !.pc = ExitPc]]
    /\ ThreadFrame
    /\ UNCHANGED <<mtx, tfine, tfby, clock>>

\* reading.temperature = this->Comp32FixedTemp(unc.temperature);
GetComp_Comp32FixedTemp(t) ==
    /\ th[t].pc = "Comp32FixedTemp"
    /\ cparams.loaded
    /\ \E u \in UBOutcomes :
         \E r \in {Comp32FixedTempCalc(th[t].unc.temperature, cparams, u)} :
             /\ tfine' = r.tfine
             /\ th' = [th EXCEPT ![t] =
                  [@ EXCEPT !.reading.temperature = r.temperature,
                            !.log = Append(@, CompStep("Comp32FixedTemp",
                                       FromInt(th[t].unc.temperature),
                                       r.tfine, t)),
                            !.pc = "Comp32FixedPress"]]
    /\ tfby' = t
    /\ ThreadFrame
    /\ UNCHANGED <<mtx, cparams, clock>>

\* reading.pressure = this->Comp32FixedPress(unc.pressure); return reading;
GetComp_Comp32FixedPress(t) ==
    /\ th[t].pc = "Comp32FixedPress"
    /\ cparams.loaded
    /\ \E u \in UBOutcomes :
         \E r \in {Comp32FixedPressCalc(th[t].unc.pressure, tfine,
                                        cparams, u)} :
             th' = [th EXCEPT ![t] =
               [@ EXCEPT !.reading.pressure = r.pressure,
                         !.ret = [th[t].reading EXCEPT
                                    !.pressure = r.pressure],
                         !.returned = TRUE,
                         !.log = Append(@, CompStep("Comp32FixedPress",
                                    th[t].unc.pressure, tfine, tfby)),
                         !.pc = ExitPc]]
    /\ ThreadFrame
    /\ UNCHANGED <<mtx, tfine, cparams, tfby, clock>>

\* ------------------------------------------------------------------------
\* Specifications
\* ------------------------------------------------------------------------

\* A queue on its own: no controller call runs.
Init == QInit /\ BMP280(118) /\ rom = DataSheetBlock /\ NoThreads

\* Any member function of the queue, called by its owner.
Next ==
    \/ \E tpd \in Samples : push(tpd) /\ UNCHANGED <<cvars, avars>>
    \/ pop /\ UNCHANGED <<cvars, avars>>
    \/ clear /\ UNCHANGED <<cvars, avars>>
    \/ front /\ UNCHANGED <<cvars, avars>>
    \/ back /\ UNCHANGED <<cvars, avars>>
    \/ size /\ UNCHANGED <<cvars, avars>>
    \/ capacity /\ UNCHANGED <<cvars, avars>>
    \/ full /\ UNCHANGED <<cvars, avars>>
    \/ summarize /\ UNCHANGED <<cvars, avars>>
    \/ timestart /\ UNCHANGED <<cvars, avars>>
    \/ timestop /\ UNCHANGED <<cvars, avars>>
    \/ temperature_high /\ UNCHANGED <<cvars, avars>>
    \/ temperature_low /\ UNCHANGED <<cvars, avars>>
    \/ temperature_average /\ UNCHANGED <<cvars, avars>>
    \/ pressure_high /\ UNCHANGED <<cvars, avars>>
    \/ pressure_low /\ UNCHANGED <<cvars, avars>>
    \/ pressure_average /\ UNCHANGED <<cvars, avars>>
    \/ TemperatureSummary /\ UNCHANGED <<cvars, avars>>
    \/ PressureSummary /\ UNCHANGED <<cvars, avars>>

Spec == Init /\ [][Next]_vars

\* A controller on its own, configured and reset by one caller: the queue
\* is a default-constructed one that nobody uses.
InitCfg ==
    /\ QInit
    /\ qcap = MaxCap
    /\ \E addr \in Addresses : BMP280(addr)
    /\ rom = DataSheetBlock
    /\ NoThreads

NextCfg ==
    \/ \E preset \in Presets : SetConfig_preset(preset) /\ UNCHANGED <<qvars, avars>>
    \/ \E ctrl \in CtrlBytes, conf \in ConfBytes :
         SetConfig(ctrl, conf) /\ UNCHANGED <<qvars, avars>>
    \/ Reset /\ UNCHANGED <<qvars, avars>>
    \/ Reset_Write /\ UNCHANGED <<qvars, avars>>
    \/ Reset_usleep /\ UNCHANGED <<qvars, avars>>
    \/ SetConfig_SetRegs /\ UNCHANGED <<qvars, avars>>
    \/ SetConfig_usleep /\ UNCHANGED <<qvars, avars>>

SpecCfg == InitCfg /\ [][NextCfg]_vars

\* A controller on its own whose caller loads the calibration and
\* compensates raw counts, the device being any of CalBlocks.
InitComp ==
    /\ QInit
    /\ qcap = MaxCap
    /\ \E addr \in Addresses : BMP280(addr)
    /\ rom \in CalBlocks
    /\ NoThreads

NextComp ==
    \/ LoadCalParams /\ UNCHANGED <<qvars, avars>>
    \/ \E unctemp \in RawTemps : Comp32FixedTemp(unctemp) /\ UNCHANGED <<qvars, avars>>
    \/ \E uncpress \in RawPress :
         Comp32FixedPress(uncpress) /\ UNCHANGED <<qvars, avars>>
    \/ LoadCalParams_GetRegs /\ UNCHANGED <<qvars, avars>>
    \/ Comp32FixedTemp_calc /\ UNCHANGED <<qvars, avars>>
    \/ Comp32FixedPress_calc /\ UNCHANGED <<qvars, avars>>

SpecComp == InitComp /\ [][NextComp]_vars

\* A controller on its own whose one caller configures, resets, loads the
\* calibration and compensates, in any order.
InitCtl == InitCfg

NextCtl ==
    \/ \E preset \in Presets : SetConfig_preset(preset) /\ UNCHANGED <<qvars, avars>>
    \/ \E ctrl \in CtrlBytes, conf \in ConfBytes :
         SetConfig(ctrl, conf) /\ UNCHANGED <<qvars, avars>>
    \/ Reset /\ UNCHANGED <<qvars, avars>>
    \/ Reset_Write /\ UNCHANGED <<qvars, avars>>
    \/ Reset_usleep /\ UNCHANGED <<qvars, avars>>
    \/ SetConfig_SetRegs /\ UNCHANGED <<qvars, avars>>
    \/ SetConfig_usleep /\ UNCHANGED <<qvars, avars>>
    \/ LoadCalParams /\ UNCHANGED <<qvars, avars>>
    \/ \E unctemp \in RawTemps : Comp32FixedTemp(unctemp) /\ UNCHANGED <<qvars, avars>>
    \/ \E uncpress \in RawPress :
         Comp32FixedPress(uncpress) /\ UNCHANGED <<qvars, avars>>
    \/ LoadCalParams_GetRegs /\ UNCHANGED <<qvars, avars>>
    \/ Comp32FixedTemp_calc /\ UNCHANGED <<qvars, avars>>
    \/ Comp32FixedPress_calc /\ UNCHANGED <<qvars, avars>>

SpecCtl == InitCtl /\ [][NextCtl]_vars

\* A controller whose data two threads acquire, every caller holding mtx
\* for the whole of each call (locking) or none of them locking at all.
InitData ==
    /\ QInit
    /\ qcap = MaxCap
    /\ BMP280(118)
    /\ rom = DataSheetBlock
    /\ th = [t \in Threads |-> Idle]
    /\ mtx = 0
    /\ locking \in BOOLEAN
    /\ tfby = 0
    /\ clock = 0

NextData ==
    \/ \E t \in Threads : lock(t)
    \/ \E t \in Threads : unlock(t)
    \/ tick
    \/ \E t \in Threads : GetUncompData(t)
    \/ \E t \in Threads : GetComp32FixedData(t)
    \/ \E t \in Threads : GetUncompData_GetRegs(t)
    \/ \E t \in Threads : GetComp_LoadCalParams(t)
    \/ \E t \in Threads : GetComp_Comp32FixedTemp(t)
    \/ \E t \in Threads : GetComp_Comp32FixedPress(t)

SpecData == InitData /\ [][NextData]_vars

\* A controller whose raw data one caller reads, whatever the data
\* registers hold.
InitRaw ==
    /\ QInit
    /\ qcap = MaxCap
    /\ BMP280(118)
    /\ rom = DataSheetBlock
    /\ NoThreads

NextRaw ==
    \/ tick
    \/ GetUncompData(1)
    \/ GetUncompData_GetRawRegs(1)

SpecRaw == InitRaw /\ [][NextRaw]_vars

\* ------------------------------------------------------------------------
\* TP32DataQueue: properties
\* ------------------------------------------------------------------------

\* The temperatures and the pressures of the samples held.
TempsOf(q) == { q[i].temperature : i \in 1 .. Len(q) }

PressOf(q) == { q[i].pressure : i \in 1 .. Len(q) }

MaxTemp(q) == CHOOSE x \in TempsOf(q) : \A y \in TempsOf(q) : y <= x

MinTemp(q) == CHOOSE x \in TempsOf(q) : \A y \in TempsOf(q) : x <= y

MaxPress(q) == CHOOSE x \in PressOf(q) : \A y \in PressOf(q) : ~WLt(x, y)

MinPress(q) == CHOOSE x \in PressOf(q) : \A y \in PressOf(q) : ~WLt(y, x)

\* The exact sums of the temperatures and of the pressures held.
RECURSIVE ExactTempSum(_)
ExactTempSum(q) ==
    IF q = <<>> THEN W0
    ELSE WAdd(FromInt(Head(q).temperature), ExactTempSum(Tail(q)))

RECURSIVE ExactPressSum(_)
ExactPressSum(q) ==
    IF q = <<>> THEN W0
    ELSE WAdd(Head(q).pressure, ExactPressSum(Tail(q)))

\* The arithmetic means: the exact sum divided by the sample count.
MeanTemp(q) == DoubleDiv(ExactTempSum(q), Len(q))

MeanPress(q) == DoubleDiv(ExactPressSum(q), Len(q))

\* C1: with a capacity N >= 1, once M > N samples have been pushed with no
\* pop or clear between them, the queue holds N samples, which are the
\* last N pushed in push order; front() is the (M-N+1)-th pushed and
\* back() the M-th, and size() returns N.
C1_FifoEviction ==
    (qcap >= 1 /\ Len(pushed) > qcap) =>
        /\ Len(dq) = qcap
        /\ dq = LastN(pushed, qcap)
        /\ Head(dq) = pushed[Len(pushed) - qcap + 1]
        /\ dq[Len(dq)] = pushed[Len(pushed)]
        /\ (ret.op = "size" => ret.val = qcap)
        /\ (ret.op = "push" => ret.val = qcap)
        /\ (ret.op = "front" =>
              ~ret.err /\ ret.val = pushed[Len(pushed) - qcap + 1])
        /\ (ret.op = "back" => ~ret.err /\ ret.val = pushed[Len(pushed)])

\* More samples than the capacity were pushed, the evicted one differing
\* from the ones kept, and front() was read.
C1_Witness ==
    /\ qcap = 2
    /\ Len(pushed) = 3
    /\ pushed[1] # pushed[2]
    /\ pushed[2] # pushed[3]
    /\ pushed[1] # pushed[3]
    /\ ret.op = "front"

\* C2: the queue never holds more samples than its capacity, and the size
\* push() returns after evicting is within the capacity.
C2_SizeWithinCapacity ==
    /\ Len(dq) <= qcap
    /\ (ret.op = "push" => ret.val = Len(dq) /\ ret.val <= qcap)
    /\ (ret.op = "size" => ret.val <= qcap)

\* A push onto a full queue has just evicted.
C2_Witness ==
    /\ ret.op = "push"
    /\ qcap >= 1
    /\ Len(pushed) > qcap
    /\ Len(dq) = qcap

\* C3: on a non-empty queue the highs and lows that summarize() leaves and
\* that the accessors and the two summaries return are the maximum and
\* the minimum of the temperatures, and of the pressures, of the samples
\* held.
C3_HighLowAreMaxMin ==
    dq # <<>> =>
        /\ (ret.op = "summarize" =>
              /\ t_high = MaxTemp(dq) /\ t_low = MinTemp(dq)
              /\ p_high = MaxPress(dq) /\ p_low = MinPress(dq))
        /\ (ret.op = "temperature_high" => ret.val = MaxTemp(dq))
        /\ (ret.op = "temperature_low" => ret.val = MinTemp(dq))
        /\ (ret.op = "pressure_high" => ret.val = MaxPress(dq))
        /\ (ret.op = "pressure_low" => ret.val = MinPress(dq))
        /\ (ret.op = "TemperatureSummary" =>
              ret.val.high = MaxTemp(dq) /\ ret.val.low = MinTemp(dq))
        /\ (ret.op = "PressureSummary" =>
              ret.val.high = MaxPress(dq) /\ ret.val.low = MinPress(dq))

\* A pressure low was read from two samples whose temperatures and
\* pressures are ordered in opposite ways.
C3_Witness ==
    /\ Len(dq) = 2
    /\ dq[1].temperature > dq[2].temperature
    /\ WLt(dq[1].pressure, dq[2].pressure)
    /\ ret.op = "pressure_low"

\* C4: on a non-empty queue the averages that summarize() leaves and that
\* the accessors and the two summaries return are the arithmetic means of
\* the temperatures and of the pressures of the samples held.
C4_AverageIsMean ==
    dq # <<>> =>
        /\ (ret.op = "summarize" =>
              t_avg = MeanTemp(dq) /\ p_avg = MeanPress(dq))
        /\ (ret.op = "temperature_average" => ret.val = MeanTemp(dq))
        /\ (ret.op = "pressure_average" => ret.val = MeanPress(dq))
        /\ (ret.op = "TemperatureSummary" => ret.val.average = MeanTemp(dq))
        /\ (ret.op = "PressureSummary" => ret.val.average = MeanPress(dq))

\* C5: after a push, a clear or a pop that returned, stale is true.
C5_MutationMarksStale ==
    (ret.op \in {"push", "clear"} \/ (ret.op = "pop" /\ ~ret.err)) => stale

\* A pop returned from a queue whose summary had been computed.
C5_Witness ==
    /\ ret.op = "pop"
    /\ ~ret.err
    /\ stale
    /\ t_high # INT32_MIN
    /\ dq # <<>>

\* The calls that read the summary.
SummaryReads ==
    {"temperature_high", "temperature_low", "temperature_average",
     "pressure_high", "pressure_low", "pressure_average",
     "TemperatureSummary", "PressureSummary"}

\* C6: on a non-empty queue a summary read that follows a summary read
\* changes neither the samples nor the cached values nor the stale flag,
\* and returns what the first returned when it is the same read.
C6_IdempotentRead ==
    [][ (dq # <<>> /\ ret.op \in SummaryReads /\ ret'.op \in SummaryReads)
          => /\ UNCHANGED <<dq, cache, stale>>
             /\ (ret'.op = ret.op => ret' = ret) ]_vars

\* An average was read from a content whose temperature sum overflows,
\* where only the cache keeps the next read equal.
C6_Witness ==
    /\ Len(dq) = 2
    /\ ~FitsS32(ExactTempSum(dq))
    /\ ret.op = "temperature_average"
    /\ ~stale

\* C7: front(), back(), pop(), TemperatureSummary() and PressureSummary()
\* called on an empty queue throw runtime_error.
C7_EmptyThrows ==
    [][ (dq = <<>> /\ (front \/ back \/ pop \/ TemperatureSummary
                         \/ PressureSummary))
          => (ret'.err /\ ret'.val = "runtime_error") ]_vars

\* pop() threw on a queue that had held samples and was emptied.
C7_Witness ==
    /\ dq = <<>>
    /\ ret.op = "pop"
    /\ ret.err
    /\ t_high # INT32_MIN

\* ------------------------------------------------------------------------
\* BMP280: properties of SetConfig
\* ------------------------------------------------------------------------

\* The control and config bytes of the presets one to six.
PresetTable ==
    << <<Macro("BMP280_CTRL_PRE1"), Macro("BMP280_CONF_PRE1")>>,
       <<Macro("BMP280_CTRL_PRE2"), Macro("BMP280_CONF_PRE2")>>,
       <<Macro("BMP280_CTRL_PRE3"), Macro("BMP280_CONF_PRE3")>>,
       <<Macro("BMP280_CTRL_PRE4"), Macro("BMP280_CONF_PRE4")>>,
       <<Macro("BMP280_CTRL_PRE5"), Macro("BMP280_CONF_PRE5")>>,
       <<Macro("BMP280_CTRL_PRE6"), Macro("BMP280_CONF_PRE6")>> >>

\* What a configuration with the bytes ctrl and conf puts on the bus of
\* the device at addr when no transaction fails: the reset command, its
\* settle delay, one write of three register/value pairs, the
\* configuration delay.
ConfigSequence(ctrl, conf, addr) ==
    << [bus |-> "Write",
        data |-> <<Macro("BMP280_R_RESET"), Macro("BMP280_CMD_RESET")>>,
        len |-> 2, addr |-> addr, ok |-> TRUE],
       [bus |-> "usleep", usec |-> Macro("BMP280_RESET_DELAY")],
       [bus |-> "Write",
        data |-> << Macro("BMP280_R_CTRL"),
                    [and |-> ctrl, mask |-> Macro("BMP280_MODE_MSK_OUT")],
                    Macro("BMP280_R_CONF"), conf,
                    Macro("BMP280_R_CTRL"), ctrl >>,
        len |-> 6, addr |-> addr, ok |-> TRUE],
       [bus |-> "usleep", usec |-> Macro("BMP280_CONFIG_DELAY")] >>

\* The call in progress has issued the first entries of steps, in order; a
\* transaction the transport refused is the last one issued.
IssuedInOrder(steps) ==
    /\ Len(trace) <= Len(steps)
    /\ \A i \in 1 .. Len(trace) :
         IF exc /\ i = Len(trace)
         THEN /\ steps[i].bus = "Write"
              /\ trace[i] = [steps[i] EXCEPT !.ok = FALSE]
         ELSE trace[i] = steps[i]
    /\ (pc = "ready" /\ ~exc) => trace = steps

\* C8: SetConfig(preset) with a preset outside 1..6 calls
\* SetConfig(ctrl, conf) with the control and config bytes of preset 1 and
\* issues the bus writes and delays of SetConfig(1); each preset in 1..6
\* selects its own pair.
C8_PresetFallback ==
    call.fn = "SetConfig(int)" =>
        LET sel == IF call.preset \in 1 .. 6 THEN call.preset ELSE 1
        IN  /\ <<call.ctrl, call.conf>> = PresetTable[sel]
            /\ IssuedInOrder(ConfigSequence(PresetTable[sel][1],
                                            PresetTable[sel][2], i2caddr))

\* SetConfig(INT_MIN) has returned after the sequence of SetConfig(1).
C8_Witness ==
    /\ call.fn = "SetConfig(int)"
    /\ call.preset = INT32_MIN
    /\ pc = "ready"
    /\ ~exc
    /\ Len(trace) = 4
    /\ trace[3].data[6] = Macro("BMP280_CTRL_PRE1")

\* The places of the entries of trace that write the config register.
ConfWrites ==
    { i \in 1 .. Len(trace) :
        /\ trace[i].bus = "Write"
        /\ \E k \in 1 .. Len(trace[i].data) :
             trace[i].data[k] = Macro("BMP280_R_CONF") }

\* C9: SetConfig(ctrl, conf) first completes the reset write and its
\* settle delay, then makes a single bus write of (control register,
\* masked ctrl), (config register, conf), (control register, ctrl), then
\* waits the configuration delay; the config register is written neither
\* before the reset nor after the unmasked control byte.
C9_ConfigOrder ==
    call.fn \in {"SetConfig(uint8_t,uint8_t)", "SetConfig(int)"} =>
        /\ IssuedInOrder(ConfigSequence(call.ctrl, call.conf, i2caddr))
        /\ \A i \in ConfWrites :
             /\ i = 3
             /\ trace[1].data[1] = Macro("BMP280_R_RESET")
             /\ trace[1].ok
             /\ trace[2] = [bus |-> "usleep",
                            usec |-> Macro("BMP280_RESET_DELAY")]
             /\ trace[3].len = 6
             /\ trace[3].data[1] = Macro("BMP280_R_CTRL")
             /\ trace[3].data[2] # call.ctrl
             /\ trace[3].data[3] = Macro("BMP280_R_CONF")
             /\ trace[3].data[4] = call.conf
             /\ trace[3].data[5] = Macro("BMP280_R_CTRL")
             /\ trace[3].data[6] = call.ctrl

\* SetConfig(0x57, 0x10) has returned after all four steps.
C9_Witness ==
    /\ call.fn = "SetConfig(uint8_t,uint8_t)"
    /\ call.ctrl = Imm(87)
    /\ call.conf = Imm(16)
    /\ pc = "ready"
    /\ ~exc
    /\ Len(trace) = 4
    /\ ConfWrites = {3}

\* ------------------------------------------------------------------------
\* BMP280: properties of the compensation
\* ------------------------------------------------------------------------

\* C10: Comp32FixedPress returns 0, without dividing, whenever the
\* scaling numerator ((32768 + v1) * P1) >> 15 it tests is zero, whatever
\* the raw pressure, tfine and the other coefficients.
C10_ZeroNumeratorReturnsZero ==
    (pc = "ready" /\ call.fn = "Comp32FixedPress" /\ ~exc) =>
        /\ cret.fn = "Comp32FixedPress"
        /\ ~cret.ub =>
             cret.v1 = PressHead(call.arg, tfine, cparams, "wrap").v1
        /\ cret.v1 = 0 => (cret.value = W0 /\ ~cret.divided)
        /\ cret.v1 # 0 => cret.divided

\* Comp32FixedPress has returned 0 for a nonzero raw pressure, a nonzero
\* tfine and a nonzero P1, the numerator being zero by the shift.
C10_Witness ==
    /\ pc = "ready"
    /\ call.fn = "Comp32FixedPress"
    /\ ~exc
    /\ cret.v1 = 0
    /\ ~cret.ub
    /\ cret.value = W0
    /\ call.arg # W0
    /\ tfine # 0
    /\ cparams.p1 # 0

\* C11: pressure compensation is executed only when the compensation
\* executed just before it was a temperature compensation, which wrote
\* the tfine it reads.
C11_PressFollowsTemp ==
    pc = "Comp32FixedPress" => cret.fn = "Comp32FixedTemp"

\* The calibration of the vendor's worked example, as loaded.
VendorCal == ParseCal(DataSheetBlock)

\* C13: with the calibration and the raw counts of the vendor's worked
\* example, Comp32FixedTemp writes tfine 128422 and returns 2508, and
\* Comp32FixedPress on that tfine returns 100656 Pa, within 12 Pa (the
\* relative accuracy of the device, 0.12 hPa) of the published 100653 Pa.
C13_VendorExample ==
    (pc = "ready" /\ ~exc /\ cparams = VendorCal) =>
        /\ (call.fn = "Comp32FixedTemp" /\ call.arg = FromInt(519888)) =>
             /\ tfine = 128422
             /\ cret = CompResult("Comp32FixedTemp", FromInt(2508), 0,
                                  FALSE, FALSE)
        /\ (/\ call.fn = "Comp32FixedPress"
            /\ call.arg = FromInt(415148)
            /\ tfine = 128422) =>
             /\ cret.value = FromInt(100656)
             /\ ToInt(cret.value) - 100653 \in -12 .. 12
             /\ cret.divided
             /\ ~cret.ub

\* The pressure of the example has been returned for the tfine of the
\* example.
C13_Witness ==
    /\ pc = "ready"
    /\ ~exc
    /\ cparams = VendorCal
    /\ call.fn = "Comp32FixedPress"
    /\ call.arg = FromInt(415148)
    /\ tfine = 128422
    /\ cret.fn = "Comp32FixedPress"
    /\ cret.value = FromInt(100656)

\* The compensation functions.
CompCalls == {"Comp32FixedTemp", "Comp32FixedPress"}

\* C18: a compensation call reads the calibration block exactly when
\* loaded is false at its entry; loaded, once true, stays true; so a
\* compensation call reads the block at most once, as its first
\* transaction, and none does after a read that succeeded.
C18_LazyLoadOnce ==
    [][/\ cparams.loaded => cparams'.loaded
       /\ (pc = "ready" /\ pc' # "ready" /\ call'.fn \in CompCalls) =>
            ((pc' = "LoadCalParams") <=> ~cparams.loaded)
       /\ (call'.fn \in CompCalls /\ Len(trace') > Len(trace)) =>
            /\ ~cparams.loaded
            /\ trace = <<>>
            /\ trace'[1].bus = "Xfer"
            /\ trace'[1].ok = cparams'.loaded
       /\ (pc \in CompCalls /\ pc' = "ready") => cparams.loaded
      ]_vars

\* A compensation has returned without a bus transaction, the calibration
\* having been loaded by an earlier call.
C18_Witness ==
    /\ pc = "ready"
    /\ ~exc
    /\ call.fn = "Comp32FixedPress"
    /\ cret.fn = "Comp32FixedPress"
    /\ cparams.loaded
    /\ trace = <<>>

\* ------------------------------------------------------------------------
\* TP32DataQueue: properties of pop, summarize and the summaries
\* ------------------------------------------------------------------------

C16_SummarizeClearsStale ==
    ret.op = "summarize" => ~stale

\* C17: on a non-empty queue TemperatureSummary() and PressureSummary()
\* return the timestamp of the oldest sample held as timestart, that of
\* the newest as timestop, and size() as samplecount.
C17_SummaryWindow ==
    (ret.op \in {"TemperatureSummary", "PressureSummary"} /\ ~ret.err) =>
        /\ Len(dq) >= 1
        /\ ret.val.timestart = dq[1].timestamp
        /\ ret.val.timestop = dq[Len(dq)].timestamp
        /\ ret.val.samplecount = Len(dq)

\* PressureSummary() has returned for a queue that holds two samples of
\* different timestamps, an older one having been evicted.
C17_Witness ==
    /\ ret.op = "PressureSummary"
    /\ ~ret.err
    /\ Len(dq) = 2
    /\ Len(pushed) = 3
    /\ dq[1].timestamp # dq[2].timestamp
    /\ ret.val.samplecount = 2

\* ------------------------------------------------------------------------
\* BMP280: transport failures
\* ------------------------------------------------------------------------

\* The bus transactions among the first n entries of a trace.
Transactions(tr, n) == { i \in 1 .. n : tr[i].bus \in {"Write", "Xfer"} }

\* C19: a transport failure ends the operation at the refused
\* transaction: the refused transaction is the last entry of the
\* operation (nothing is issued after it and it is not issued again),
\* and the step that meets it writes no member; so a refused reset write
\* of SetConfig is the only transaction of the call, and a refused
\* calibration read of a compensation leaves loaded false and the
\* coefficients as they were.
C19_FailureAborts ==
    [][/\ exc' =>
            /\ pc' = "ready"
            /\ Len(trace') >= 1
            /\ Transactions(trace', Len(trace')) # {}
            /\ \A i \in Transactions(trace', Len(trace')) :
                 trace'[i].ok <=> i < Len(trace')
       /\ ~exc' =>
            \A i \in Transactions(trace', Len(trace')) : trace'[i].ok
       /\ (~exc /\ exc') =>
            /\ trace' = Append(trace, trace'[Len(trace')])
            /\ <<tfine, cparams, cret, call>>' = <<tfine, cparams, cret, call>>
            /\ call.fn \in CompCalls => ~cparams'.loaded
            /\ (call.fn \in {"SetConfig(int)", "SetConfig(uint8_t,uint8_t)"}
                /\ trace = <<>>) =>
                 trace'[1].data[1] = Macro("BMP280_R_RESET")
       /\ exc => (pc' # "ready" /\ trace' = <<>> /\ ~exc')
      ]_vars

\* The reset write of a SetConfig was refused and the call has ended with
\* that one transaction, on a controller whose calibration is loaded.
C19_Witness ==
    /\ exc
    /\ pc = "ready"
    /\ call.fn = "SetConfig(uint8_t,uint8_t)"
    /\ Len(trace) = 1
    /\ ~trace[1].ok
    /\ cparams.loaded

\* ------------------------------------------------------------------------
\* BMP280: properties of the acquisition
\* ------------------------------------------------------------------------

\* The 20-bit count packed in three bytes: hi, mid and the high nibble of
\* lo.
Packed20(hi, mid, lo) == (hi * 4096) + (mid * 16) + (lo \div 16)

\* The threads whose last call, fn, has returned a sample.
ReturnedFrom(fn) ==
    { t \in Threads : th[t].fn = fn /\ th[t].returned /\ th[t].pc # "unlock" }

\* What holds of thread t when its GetComp32FixedData has returned, c
\* being the coefficients.
AcquiredInOrder(t, r, c, addr, lk) ==
    LET log == r.log
        n   == Len(log)
    IN  /\ n \in {3, 4}
        /\ log[1] = [bus |-> "Xfer",
                     startaddr |-> Macro("BMP280_R_PMSB"), len |-> 6,
                     addr |-> addr, ok |-> TRUE]
        /\ n = 4 => (log[2].bus = "Xfer" /\ log[2].ok)
        /\ log[n - 1].bus = "Comp32FixedTemp"
        /\ log[n - 1].arg = FromInt(r.unc.temperature)
        /\ log[n].bus = "Comp32FixedPress"
        /\ log[n].arg = r.unc.pressure
        /\ lk => (log[n].tfine = log[n - 1].tfine /\ log[n].by = t)
        /\ r.unc.temperature = Packed20(r.dat[4], r.dat[5], r.dat[6])
        /\ r.unc.pressure = FromInt(Packed20(r.dat[1], r.dat[2], r.dat[3]))
        /\ r.ret.timestamp = r.unc.timestamp
        /\ \E u \in UBOutcomes :
             \E x \in {Comp32FixedTempCalc(r.unc.temperature, c, u)} :
                 /\ r.ret.temperature = x.temperature
                 /\ log[n - 1].tfine = x.tfine
        /\ \E u \in UBOutcomes :
             r.ret.pressure =
                 Comp32FixedPressCalc(r.unc.pressure, log[n].tfine, c,
                                      u).pressure

\* C12: a GetComp32FixedData call reads the raw sample first, then runs
\* the temperature step on its raw temperature, then the pressure step on
\* its raw pressure; when the callers hold the lock the pressure step
\* reads the tfine that temperature step wrote; the sample returned has
\* the timestamp of the raw sample and the two results.
C12_AcquireOrder ==
    [][\A t \in Threads :
          (/\ th'[t].fn = "GetComp32FixedData"
           /\ th'[t].returned
           /\ ~th[t].returned) =>
              AcquiredInOrder(t, th'[t], cparams', i2caddr', locking')
      ]_vars

\* A locked GetComp32FixedData that began at time 0 and read the device
\* at time 1 has returned the vendor's example, stamped 1.
C12_Witness ==
    /\ locking
    /\ 1 \in ReturnedFrom("GetComp32FixedData")
    /\ th[1].ret = TP32Data(1, 2508, FromInt(100656))
    /\ th[1].log[Len(th[1].log)].tfine = 128422

\* C14, as the code has it: the raw temperature GetUncompData returns is
\* the packed 20-bit count, zero-extended into the int32_t: it lies in
\* 0 .. 2^20 - 1 and is positive when bit 19 of the count is set.
C14_RawTempZeroExtended ==
    \A t \in ReturnedFrom("GetUncompData") :
        LET v == Packed20(th[t].dat[4], th[t].dat[5], th[t].dat[6])
        IN  /\ th[t].ret.temperature = v
            /\ th[t].ret.temperature \in 0 .. 1048575
            /\ th[t].ret.pressure =
                 FromInt(Packed20(th[t].dat[1], th[t].dat[2], th[t].dat[3]))

\* C14: the raw temperature GetUncompData returns is the packed 20-bit
\* count sign-extended: negative, the count minus 2^20, when bit 19 of
\* the count is set.
C14_RawTempSignExtended ==
    \A t \in ReturnedFrom("GetUncompData") :
        LET v == Packed20(th[t].dat[4], th[t].dat[5], th[t].dat[6])
        IN  th[t].ret.temperature = IF v >= 524288 THEN v - 1048576 ELSE v

\* GetUncompData has returned for data registers whose temperature count
\* has bit 19 set.
C14_Witness ==
    /\ 1 \in ReturnedFrom("GetUncompData")
    /\ th[1].dat[4] >= 128
    /\ th[1].ret.temperature = 1048575

\* The pressure steps in the log of a thread.
PressSteps(t) ==
    { i \in 1 .. Len(th[t].log) : th[t].log[i].bus = "Comp32FixedPress" }

\* C20: no step of a controller operation locks or unlocks mtx, only the
\* callers do; when every caller holds mtx for the whole of each call, at
\* most one call is in progress and each pressure step reads the tfine
\* its own call's temperature step wrote.
C20_RaceOnlyWithoutLock ==
    [][/\ mtx' # mtx =>
            \E t \in Threads :
                \/ th[t].pc = "idle" /\ th'[t].pc = "locked" /\ mtx' = t
                \/ th[t].pc = "unlock" /\ th'[t].pc = "idle" /\ mtx' = 0
       /\ locking' =>
            \A t \in Threads :
                /\ th'[t].pc # "idle" => mtx' = t
                /\ \A i \in PressSteps(t)' :
                     /\ th'[t].log[i].by = t
                     /\ th'[t].log[i].tfine = th'[t].log[i - 1].tfine
      ]_vars

\* Without a lock, the pressure step of thread 1 has read the tfine that
\* the temperature step of thread 2 wrote, another value than its own
\* temperature step had written, and returned another pressure.
C20_Witness ==
    /\ ~locking
    /\ 1 \in ReturnedFrom("GetComp32FixedData")
    /\ \E i \in PressSteps(1) :
         /\ th[1].log[i].by = 2
         /\ th[1].log[i].tfine # th[1].log[i - 1].tfine
         /\ th[1].ret.pressure #
              Comp32FixedPressCalc(th[1].unc.pressure,
                                   th[1].log[i - 1].tfine, cparams,
                                   "wrap").pressure

\* dat with the low four bits of dat[2] and dat[5] cleared.
HighNibbles(dat) ==
    [dat EXCEPT ![3] = @ - (@ % 16), ![6] = @ - (@ % 16)]

\* C21: a GetUncompData call issues exactly one read, of the 6 bytes from
\* the pressure-MSB register on; when it returns, the pressure is
\* (b0<<12)|(b1<<4)|(b2>>4) and the temperature (b3<<12)|(b4<<4)|(b5>>4)
\* of the bytes read, the low four bits of b2 and b5 have no effect, and
\* both values lie in 0 .. 2^20 - 1.
C21_UnpackRaw ==
    \A t \in Threads :
        (th[t].fn = "GetUncompData" /\ th[t].pc # "GetUncompData") =>
            /\ Len(th[t].log) = 1
            /\ th[t].log[1].bus = "Xfer"
            /\ th[t].log[1].startaddr = Macro("BMP280_R_PMSB")
            /\ th[t].log[1].len = 6
            /\ th[t].log[1].ok = th[t].returned
            /\ th[t].returned =>
                 LET d == th[t].dat
                     r == th[t].ret
                 IN  /\ r.pressure = FromInt(Packed20(d[1], d[2], d[3]))
                     /\ r.temperature = Packed20(d[4], d[5], d[6])
                     /\ r.pressure = UnpackPressure(HighNibbles(d))
                     /\ r.temperature = UnpackTemperature(HighNibbles(d))
                     /\ ToInt(r.pressure) \in 0 .. 1048575
                     /\ r.temperature \in 0 .. 1048575

\* GetUncompData has returned for registers whose third and sixth byte
\* have bits set in the low nibble: A5 F0 0F gives pressure 679680 and
\* FF A5 FF temperature 1047135.
C21_Witness ==
    /\ th[1].fn = "GetUncompData"
    /\ th[1].returned
    /\ th[1].dat = <<165, 240, 15, 255, 165, 255>>
    /\ th[1].ret.pressure = FromInt(679680)
    /\ th[1].ret.temperature = 1047135
    /\ Len(th[1].log) = 1

\* ------------------------------------------------------------------------
\* BMP280: properties of the arithmetic
\* ------------------------------------------------------------------------

\* Whether the division step of Comp32FixedPress stays within 32 bits for
\* the dividend v3 and the divisor v1b: the exact v3 * 2 on the branch
\* that shifts first, the exact (v3 / v1b) * 2 on the branch that divides
\* first.
DivisionFits(v3, v1b) ==
    IF v3.hi < 32768
    THEN FitsU32(WMulSmall(v3, 2))
    ELSE FitsU32(WMulSmall(UDiv32(v3, v1b), 2))

\* C22: when Comp32FixedPress has divided (the scaling numerator is not
\* zero), neither the shifted dividend v3 << 1 nor the doubled quotient
\* (v3 / v1b) * 2 exceeded 2^32 - 1.
C22_DivisionNeverOverflows ==
    (/\ pc = "ready"
     /\ call.fn = "Comp32FixedPress"
     /\ ~exc
     /\ cret.fn = "Comp32FixedPress"
     /\ cret.divided) =>
        \A h \in {PressHead(call.arg, tfine, cparams, "wrap")} :
            h.ok => DivisionFits(h.v3, ToU32(h.v1))

\* C23: every intermediate of Comp32FixedTemp fits a signed 32-bit
\* integer, for every raw temperature in 0 .. 2^20 - 1 and all
\* coefficients T1, T2, T3: no operation of a call that returned has
\* overflowed, and tfine and the temperature returned are those of the
\* formula.
C23_TempFitsInt32 ==
    (/\ pc = "ready"
     /\ call.fn = "Comp32FixedTemp"
     /\ ~exc
     /\ cret.fn = "Comp32FixedTemp") =>
        /\ ToInt(call.arg) \in 0 .. 1048575
        /\ ~cret.ub
        /\ \A u \in UBOutcomes :
             \A r \in {Comp32FixedTempCalc(ToInt(call.arg), cparams, u)} :
                 tfine = r.tfine /\ cret.value = FromInt(r.temperature)

\* ------------------------------------------------------------------------
\* TP32DataQueue: properties of the cache
\* ------------------------------------------------------------------------

\* C24: in every state that calls of the queue reach, when stale is false
\* the queue is not empty and the six cached values are those a
\* summarize() of the samples now held leaves: the highs and lows are the
\* extremes of the samples held.
C24_CacheCoherent ==
    ~stale =>
        /\ dq # <<>>
        /\ \E c \in summarize_outcomes(dq, TRUE) :
             /\ ~c.stale
             /\ cache = <<c.t_high, c.t_low, c.t_avg,
                          c.p_high, c.p_low, c.p_avg>>
        /\ t_high = MaxTemp(dq) /\ t_low = MinTemp(dq)
        /\ p_high = MaxPress(dq) /\ p_low = MinPress(dq)

\* The cache is fresh for two different samples, after a summary read
\* and a call that does not write: the queue has evicted one sample
\* since its construction.
C24_Witness ==
    /\ ~stale
    /\ Len(dq) = 2
    /\ dq[1] # dq[2]
    /\ Len(pushed) = 3
    /\ ret.op = "back"

\* C25: called on an empty queue, whatever the six cached values were,
\* temperature_high() returns INT32_MIN, temperature_low() INT32_MAX,
\* pressure_high() 0, pressure_low() UINT32_MAX and the two averages 0.0;
\* none throws, and stale is true afterwards.
C25_EmptyAccessors ==
    [][ dq = <<>> =>
          /\ temperature_high =>
                (ret' = Returned("temperature_high", INT32_MIN) /\ stale')
          /\ temperature_low =>
                (ret' = Returned("temperature_low", INT32_MAX) /\ stale')
          /\ temperature_average =>
                (ret' = Returned("temperature_average", DoubleZero)
                 /\ stale')
          /\ pressure_high =>
                (ret' = Returned("pressure_high", W0) /\ stale')
          /\ pressure_low =>
                (ret' = Returned("pressure_low", UINT32_MAX) /\ stale')
          /\ pressure_average =>
                (ret' = Returned("pressure_average", DoubleZero) /\ stale')
      ]_vars

\* pressure_low() has returned UINT32_MAX on an empty queue of capacity
\* 2, and the cache holds the values of the constructor again.
C25_Witness ==
    /\ dq = <<>>
    /\ qcap = 2
    /\ ret = Returned("pressure_low", UINT32_MAX)
    /\ stale
    /\ cache = <<INT32_MIN, INT32_MAX, DoubleZero, W0, UINT32_MAX,
                 DoubleZero>>

\* C26: front(), back(), size(), capacity(), full() and a pop() that
\* throws on an empty queue leave the samples, the capacity and the stale
\* flag as they were; size() returns the number of samples held,
\* capacity() the capacity, and full() returns true exactly when the
\* first is at least the second.
C26_ReadsLeaveQueue ==
    [][ /\ (\/ ret'.op \in {"front", "back", "size", "capacity", "full"}
            \/ (ret'.op = "pop" /\ ret'.err))
              => UNCHANGED <<dq, qcap, stale>>
        /\ ret'.op = "size" => ret'.val = Len(dq)
        /\ ret'.op = "capacity" => ret'.val = qcap
        /\ ret'.op = "full" =>
              (ret'.val \in BOOLEAN /\ (ret'.val <=> Len(dq) >= qcap))
      ]_vars

\* full() has returned true on a queue that holds as many samples as its
\* capacity, 2, and whose cache was fresh and still is.
C26_Witness ==
    /\ ret = Returned("full", TRUE)
    /\ qcap = 2
    /\ Len(dq) = 2
    /\ ~stale
==========================================================================
